---- MODULE Spec2Model ----
(***************************************************************************)
(* The fantasy-football draft optimiser "fantop" of ticdat's examples, in  *)
(* its two variants:                                                       *)
(*   gurobipy : examples/gurobipy/fantop/fantop.py                         *)
(*   amplpy   : examples/expert_section/amplpy/fantop/fantop.py            *)
(* One run of solve(dat) is one behaviour: validate, estimate the draft    *)
(* order, build the MILP, call the solver, extract the solution.           *)
(*                                                                         *)
(* Numbers: Expected Points are integers, the two weights are kept in      *)
(* tenths (1.2 -> 12, 0.9 -> 9), so every yield is in tenths of a point.   *)
(* A table is the sequence of its rows, a row a function from field names  *)
(* to values.                                                              *)
(***************************************************************************)
EXTENDS Integers, Sequences, FiniteSets, TLC

VARIABLES
    variant,               \* which fantop.py runs
    loaded,                \* the tables of dat as they were passed to solve
    players,               \* dat.players
    roster_requirements,   \* dat.roster_requirements
    my_draft_positions,    \* dat.my_draft_positions
    parameters,            \* dat.parameters
    pc,                    \* position inside solve
    expected_draft_position, \* gurobipy: the dict of lines 93-100
    m_vars,                \* the binary variables of the model
    m_constrs,             \* the linear constraints of the model
    m_objective,           \* objective coefficient of each variable (tenths)
    solver_calls,          \* number of m.optimize() / ampl.solve() calls
    status,                \* how the solver call ended
    x,                     \* value of each variable after the solver call
    printed,               \* what solve has printed
    result,                \* what the call of solve produced
    sln_my_draft,          \* sln.my_draft
    sln_parameters         \* sln.parameters

vars == <<variant, loaded, players, roster_requirements, my_draft_positions,
          parameters, pc, expected_draft_position, m_vars, m_constrs,
          m_objective, solver_calls, status, x, printed, result,
          sln_my_draft, sln_parameters>>

-----------------------------------------------------------------------------
(* Bounds of the model *)

MaxPlayers == 2
MaxSlot == 3

-----------------------------------------------------------------------------
(* Generic helpers *)

Range(s) == {s[i] : i \in 1..Len(s)}

RECURSIVE SumOver(_, _)
SumOver(S, f) ==
    IF S = {} THEN 0
    ELSE LET e == CHOOSE e \in S : TRUE IN f[e] + SumOver(S \ {e}, f)

Min(a, b) == IF a <= b THEN a ELSE b

\* float("inf") and the finite numbers a parameter may hold
Infinity == [inf |-> TRUE, n |-> 0]
Finite(n) == [inf |-> FALSE, n |-> n]
LeqExt(n, e) == e.inf \/ n <= e.n

RECURSIVE InsertSorted(_, _, _)
\* insert e after every element of the sorted s whose key is <= key[e]
InsertSorted(s, e, key) ==
    IF s = <<>> THEN <<e>>
    ELSE IF key[e] < key[Head(s)] THEN <<e>> \o s
    ELSE <<Head(s)>> \o InsertSorted(Tail(s), e, key)

RECURSIVE SortedBy(_, _)
\* Python's sorted(s, key=...): stable, ascending
SortedBy(s, key) ==
    IF s = <<>> THEN <<>>
    ELSE InsertSorted(SortedBy(SubSeq(s, 1, Len(s) - 1), key), s[Len(s)], key)

\* every ordering of 1..n that is ascending in key: what an unstable sort may give
SortOrders(n, key) ==
    {o \in [1..n -> 1..n] :
        /\ \A i, j \in 1..n : i # j => o[i] # o[j]
        /\ \A i \in 1..n : i < n => key[o[i]] <= key[o[i + 1]]}

-----------------------------------------------------------------------------
(* The input schema, lines 28-69 (gurobipy) and 28-70 (amplpy) *)

Variants == {"gurobipy", "amplpy"}

PlayerRow(name, pos, adp, pts, st) ==
    ("Player Name" :> name) @@ ("Position" :> pos) @@
    ("Average Draft Position" :> adp) @@ ("Expected Points" :> pts) @@
    ("Draft Status" :> st)

RosterRow(pos, mins, maxs, minr, maxr, flex) ==
    ("Position" :> pos) @@ ("Min Num Starters" :> mins) @@
    ("Max Num Starters" :> maxs) @@ ("Min Num Reserve" :> minr) @@
    ("Max Num Reserve" :> maxr) @@ ("Flex Status" :> flex)

DraftStatuses == {"Un-drafted", "Drafted By Me", "Drafted By Someone Else"}
FlexStatuses == {"Flex Eligible", "Flex Ineligible"}

StarterWeightDefault == 12
ReserveWeightDefault == 9
MaxFlexDefault == Infinity

Column(table, fld) == [i \in 1..Len(table) |-> table[i][fld]]

\* input_schema.find_duplicates(dat): rows whose primary key occurs twice
find_duplicates(pl, rr, dp) ==
    {<<"players", i>> : i \in {i \in 1..Len(pl) :
        \E j \in 1..Len(pl) : j # i /\ pl[j]["Player Name"] = pl[i]["Player Name"]}}
    \cup {<<"roster_requirements", i>> : i \in {i \in 1..Len(rr) :
        \E j \in 1..Len(rr) : j # i /\ rr[j]["Position"] = rr[i]["Position"]}}
    \cup {<<"my_draft_positions", i>> : i \in {i \in 1..Len(dp) :
        \E j \in 1..Len(dp) : j # i /\ dp[j] = dp[i]}}

\* add_foreign_key("players", "roster_requirements", ['Position', 'Position'])
find_foreign_key_failures(pl, rr) ==
    {i \in 1..Len(pl) : pl[i]["Position"] \notin Range(Column(rr, "Position"))}

\* the set_data_type declarations; they differ in "Max Num Starters"
find_data_type_failures(v, pl, rr, dp) ==
    {<<"players", i>> : i \in {i \in 1..Len(pl) :
        \/ ~(pl[i]["Average Draft Position"] > 0)
        \/ pl[i]["Draft Status"] \notin DraftStatuses}}
    \cup {<<"roster_requirements", i>> : i \in {i \in 1..Len(rr) :
        \/ ~(rr[i]["Min Num Starters"] >= 0)
        \/ ~(rr[i]["Min Num Reserve"] >= 0)
        \/ ~(rr[i]["Max Num Reserve"] >= 0)
        \/ IF v = "gurobipy" THEN ~(rr[i]["Max Num Starters"] > 0)
                             ELSE ~(rr[i]["Max Num Starters"] >= 0)
        \/ rr[i]["Flex Status"] \notin FlexStatuses}}
    \cup {<<"my_draft_positions", i>> : i \in {i \in 1..Len(dp) : ~(dp[i] > 0)}}

\* the two add_data_row_predicate declarations
find_data_row_failures(rr) ==
    {i \in 1..Len(rr) :
        \/ ~(rr[i]["Max Num Starters"] >= rr[i]["Min Num Starters"])
        \/ ~(rr[i]["Max Num Reserve"] >= rr[i]["Min Num Reserve"])}

\* InputChecksPass without the assert on find_data_row_failures
InputChecksPassNoRowCheck(v, pl, rr, dp) ==
    /\ v = "amplpy" => find_duplicates(pl, rr, dp) = {}
    /\ find_foreign_key_failures(pl, rr) = {}
    /\ find_data_type_failures(v, pl, rr, dp) = {}

\* the assert lines at the head of solve
InputChecksPass(v, pl, rr, dp) ==
    /\ v = "amplpy" => find_duplicates(pl, rr, dp) = {}
    /\ find_foreign_key_failures(pl, rr) = {}
    /\ find_data_type_failures(v, pl, rr, dp) = {}
    /\ find_data_row_failures(rr) = {}

\* input_schema.create_full_parameters_dict(dat): the defaults, overridden by the table
create_full_parameters_dict(par) ==
    [p \in {"Starter Weight", "Reserve Weight", "Maximum Number of Flex Starters"} |->
        IF \E i \in 1..Len(par) : par[i]["Parameter"] = p
        THEN (CHOOSE r \in Range(par) : r["Parameter"] = p)["Value"]
        ELSE CASE p = "Starter Weight" -> Finite(StarterWeightDefault)
               [] p = "Reserve Weight" -> Finite(ReserveWeightDefault)
               [] OTHER -> MaxFlexDefault]

-----------------------------------------------------------------------------
(* The Draft Position Estimator *)

RowOf(pl, name) == CHOOSE r \in Range(pl) : r["Player Name"] = name

\* SortKey with the keys of the two drafted statuses exchanged
SortKeyExchanged(row) ==
    CASE row["Draft Status"] = "Un-drafted" -> row["Average Draft Position"]
      [] row["Draft Status"] = "Drafted By Me" -> -2
      [] row["Draft Status"] = "Drafted By Someone Else" -> -1

\* the sort key of gurobipy lines 97-99 and of amplpy lines 99-101
SortKey(row) ==
    CASE row["Draft Status"] = "Un-drafted" -> row["Average Draft Position"]
      [] row["Draft Status"] = "Drafted By Me" -> -1
      [] row["Draft Status"] = "Drafted By Someone Else" -> -2

RECURSIVE Enumerate(_, _)
\* the loop body of line 100: edp[player_name] = len(edp) + 1
Enumerate(names, edp) ==
    IF names = <<>> THEN edp
    ELSE Enumerate(Tail(names),
                   (Head(names) :> (Cardinality(DOMAIN edp) + 1)) @@ edp)

\* gurobipy lines 93-100
GurobiExpectedDraftPosition(pl) ==
    LET names == Column(pl, "Player Name")
        key == [n \in Range(names) |-> SortKey(RowOf(pl, n))]
    IN Enumerate(SortedBy(names, key), <<>>)

SeqMax(S) == CHOOSE m \in S : \A e \in S : e <= m
SeqMin(S) == CHOOSE m \in S : \A e \in S : m <= e

\* gurobipy lines 101-102, for a non-empty dict
GurobiPositionAsserts(edp, pl) ==
    LET values == {edp[n] : n \in DOMAIN edp}
    IN /\ SeqMax(values) = Cardinality(values)
       /\ Cardinality(values) = Len(pl)
       /\ SeqMin(values) = 1

-----------------------------------------------------------------------------
(* The Model Builder of the gurobipy variant, lines 104-158 *)

already_drafted_by_me(pl) ==
    {r["Player Name"] : r \in {r \in Range(pl) : r["Draft Status"] = "Drafted By Me"}}

can_be_drafted_by_me(pl) ==
    {r["Player Name"] : r \in {r \in Range(pl) :
                                  r["Draft Status"] # "Drafted By Someone Else"}}

my_starters(name) == <<"starter", name>>
my_reserves(name) == <<"reserve", name>>
BothRoles(names) == {my_starters(n) : n \in names} \cup {my_reserves(n) : n \in names}

Constr(name, lhs, sense, rhs) == [name |-> name, lhs |-> lhs, sense |-> sense, rhs |-> rhs]

\* lines 110-113
GurobiVars(pl) == BothRoles(can_be_drafted_by_me(pl))

\* lines 116-122
GurobiRoleConstrs(pl) ==
    {IF n \in already_drafted_by_me(pl)
        THEN Constr(<<"already_drafted", n>>, BothRoles({n}), "==", Finite(1))
        ELSE Constr(<<"cant_draft_twice", n>>, BothRoles({n}), "<=", Finite(1))
     : n \in can_be_drafted_by_me(pl)}

\* GurobiOrderConstrs with i counting from 1
GurobiOrderConstrsFromOne(pl, dp, edp) ==
    LET slots == SortedBy(dp, [d \in Range(dp) |-> d])
    IN {Constr(<<"at_most_can_be_ahead_of", i, slots[i]>>,
               BothRoles({n \in can_be_drafted_by_me(pl) : edp[n] < slots[i]}),
               "<=", Finite(i))
        : i \in 1..Len(slots)}

\* lines 124-128; i counts from 0 over the sorted slots
GurobiOrderConstrs(pl, dp, edp) ==
    LET slots == SortedBy(dp, [d \in Range(dp) |-> d])
    IN {Constr(<<"at_most_can_be_ahead_of", i - 1, slots[i]>>,
               BothRoles({n \in can_be_drafted_by_me(pl) : edp[n] < slots[i]}),
               "<=", Finite(i - 1))
        : i \in 1..Len(slots)}

\* lines 130-134
GurobiSizeConstrs(pl, dp) ==
    {Constr(<<"need_to_extend_by_at_least_one">>, BothRoles(can_be_drafted_by_me(pl)),
            ">=", Finite(Cardinality(already_drafted_by_me(pl)) + 1)),
     Constr(<<"cant_exceed_draft_total">>, BothRoles(can_be_drafted_by_me(pl)),
            "<=", Finite(Len(dp)))}

\* GurobiRosterConstrs without the two upper limits
GurobiRosterConstrsNoMax(pl, rr) ==
    UNION {LET row == rr[k]
               at == {n \in can_be_drafted_by_me(pl) :
                         RowOf(pl, n)["Position"] = row["Position"]}
           IN {Constr(<<"min_starters", row["Position"]>>, {my_starters(n) : n \in at},
                      ">=", Finite(row["Min Num Starters"])),
               Constr(<<"min_reserve", row["Position"]>>, {my_reserves(n) : n \in at},
                      ">=", Finite(row["Min Num Reserve"]))}
           : k \in 1..Len(rr)}

\* lines 136-144
GurobiRosterConstrs(pl, rr) ==
    UNION {LET row == rr[k]
               at == {n \in can_be_drafted_by_me(pl) :
                         RowOf(pl, n)["Position"] = row["Position"]}
               starters == {my_starters(n) : n \in at}
               reserves == {my_reserves(n) : n \in at}
           IN {Constr(<<"min_starters", row["Position"]>>, starters, ">=",
                      Finite(row["Min Num Starters"])),
               Constr(<<"max_starters", row["Position"]>>, starters, "<=",
                      Finite(row["Max Num Starters"])),
               Constr(<<"min_reserve", row["Position"]>>, reserves, ">=",
                      Finite(row["Min Num Reserve"])),
               Constr(<<"max_reserve", row["Position"]>>, reserves, "<=",
                      Finite(row["Max Num Reserve"]))}
           : k \in 1..Len(rr)}

RosterRowOf(rr, pos) == CHOOSE r \in Range(rr) : r["Position"] = pos

flex_players(pl, rr) ==
    {n \in can_be_drafted_by_me(pl) :
        RosterRowOf(rr, RowOf(pl, n)["Position"])["Flex Status"] = "Flex Eligible"}

\* lines 146-151
GurobiFlexConstrs(pl, rr, par) ==
    {Constr(<<"max_flex">>, {my_starters(n) : n \in flex_players(pl, rr)}, "<=",
            create_full_parameters_dict(par)["Maximum Number of Flex Starters"])}

GurobiConstrs(pl, rr, dp, par, edp) ==
    GurobiRoleConstrs(pl) \cup GurobiOrderConstrs(pl, dp, edp)
    \cup GurobiSizeConstrs(pl, dp) \cup GurobiRosterConstrs(pl, rr)
    \cup GurobiFlexConstrs(pl, rr, par)

\* Objective with the two weights exchanged
ObjectiveExchanged(pl, par, names) ==
    [v \in BothRoles(names) |->
        RowOf(pl, v[2])["Expected Points"] *
        (IF v[1] = "starter"
            THEN create_full_parameters_dict(par)["Reserve Weight"].n
            ELSE create_full_parameters_dict(par)["Starter Weight"].n)]

\* lines 153-158: Expected Points times the weight of the role
Objective(pl, par, names) ==
    [v \in BothRoles(names) |->
        RowOf(pl, v[2])["Expected Points"] *
        (IF v[1] = "starter"
            THEN create_full_parameters_dict(par)["Starter Weight"].n
            ELSE create_full_parameters_dict(par)["Reserve Weight"].n)]

-----------------------------------------------------------------------------
(* The solver: a MILP solve over binary variables *)

Lhs(c, val) == SumOver(c.lhs, val)

Satisfies(c, val) ==
    CASE c.sense = "<=" -> LeqExt(Lhs(c, val), c.rhs)
      [] c.sense = ">=" -> ~c.rhs.inf /\ Lhs(c, val) >= c.rhs.n
      [] c.sense = "==" -> ~c.rhs.inf /\ Lhs(c, val) = c.rhs.n

Feasible(mv, mc) == {val \in [mv -> {0, 1}] : \A c \in mc : Satisfies(c, val)}

ObjVal(obj, val) == SumOver(DOMAIN obj, [v \in DOMAIN obj |-> obj[v] * val[v]])

\* the assignments of F with the largest objective value
Best(F, obj) ==
    LET value == [val \in F |-> ObjVal(obj, val)]
    IN {val \in F : \A other \in F : value[other] <= value[val]}

-----------------------------------------------------------------------------
(* The amplpy variant: estimator (lines 99-111) and AMPL model (lines 115-190) *)

\* lines 99-106, for one ordering o the sort of line 102 may produce
AmplSortedPlayers(pl, o) ==
    [i \in 1..Len(pl) |-> pl[o[i]] @@ ("Expected Draft Position" :> i)]

\* line 109
AmplSortedDraftPositions(dp) == SortedBy(dp, [d \in Range(dp) |-> d])

\* line 111
AmplPositionAssert(pl) ==
    Column(pl, "Expected Draft Position") = [i \in 1..Len(pl) |-> i]

\* the column of the sorted table as a function of the player
AmplExpectedDraftPosition(pl) ==
    [n \in Range(Column(pl, "Player Name")) |-> RowOf(pl, n)["Expected Draft Position"]]

\* set DRAFTABLE_PLAYERS, line 134
DRAFTABLE_PLAYERS(pl) ==
    {r["Player Name"] : r \in {r \in Range(pl) :
                                  r["Draft Status"] # "Drafted By Someone Else"}}

StatusIs(pl, st) ==
    {r["Player Name"] : r \in {r \in Range(pl) : r["Draft Status"] = st}}

\* lines 136-137
AmplVars(pl) == BothRoles(DRAFTABLE_PLAYERS(pl))

\* AmplRoleConstrs with "<= 1" for the players already drafted by me too
AmplRoleConstrsAllOptional(pl) ==
    {Constr(<<"Cant_Draft_Twice", n>>, BothRoles({n}), "<=", Finite(1))
        : n \in StatusIs(pl, "Drafted By Me") \cup StatusIs(pl, "Un-drafted")}

\* lines 139-142
AmplRoleConstrs(pl) ==
    {Constr(<<"Already_Drafted_By_Me", n>>, BothRoles({n}), "==", Finite(1))
        : n \in StatusIs(pl, "Drafted By Me")}
    \cup {Constr(<<"Cant_Draft_Twice", n>>, BothRoles({n}), "<=", Finite(1))
        : n \in StatusIs(pl, "Un-drafted")}

\* AmplOrderConstrs without the "- 1" of line 146
AmplOrderConstrsOrd(pl, dp) ==
    {Constr(<<"At_Most_X_Can_Be_Ahead_Of_Y", dp[i]>>,
            BothRoles({n \in DRAFTABLE_PLAYERS(pl) :
                          RowOf(pl, n)["Expected Draft Position"] < dp[i]}),
            "<=", Finite(i))
        : i \in 1..Len(dp)}

\* lines 144-146; ord(d) is the place of d in the set as it was loaded
AmplOrderConstrs(pl, dp) ==
    {Constr(<<"At_Most_X_Can_Be_Ahead_Of_Y", dp[i]>>,
            BothRoles({n \in DRAFTABLE_PLAYERS(pl) :
                          RowOf(pl, n)["Expected Draft Position"] < dp[i]}),
            "<=", Finite(i - 1))
        : i \in 1..Len(dp)}

\* lines 148-152: My_Draft_Size is the sum, and lies within its two bounds
AmplSizeConstrs(pl, dp) ==
    {Constr(<<"My_Draft_Size_lower">>, BothRoles(DRAFTABLE_PLAYERS(pl)), ">=",
            Finite(Cardinality(StatusIs(pl, "Drafted By Me")))),
     Constr(<<"My_Draft_Size_upper">>, BothRoles(DRAFTABLE_PLAYERS(pl)), "<=",
            Finite(Len(dp)))}

\* lines 154-161
AmplRosterConstrs(pl, rr) ==
    UNION {LET at == {n \in DRAFTABLE_PLAYERS(pl) :
                         RowOf(pl, n)["Position"] = rr[k]["Position"]}
           IN {Constr(<<"Min_Number_Starters", rr[k]["Position"]>>,
                      {my_starters(n) : n \in at}, ">=", Finite(rr[k]["Min Num Starters"])),
               Constr(<<"Max_Number_Starters", rr[k]["Position"]>>,
                      {my_starters(n) : n \in at}, "<=", Finite(rr[k]["Max Num Starters"])),
               Constr(<<"Min_Number_Reserve", rr[k]["Position"]>>,
                      {my_reserves(n) : n \in at}, ">=", Finite(rr[k]["Min Num Reserve"])),
               Constr(<<"Max_Number_Reserve", rr[k]["Position"]>>,
                      {my_reserves(n) : n \in at}, "<=", Finite(rr[k]["Max Num Reserve"]))}
           : k \in 1..Len(rr)}

\* line 187: min(parameters['Maximum Number of Flex Starters'], len(dat.my_draft_positions))
max_number_of_flex_starters(par, dp) ==
    LET p == create_full_parameters_dict(par)["Maximum Number of Flex Starters"]
    IN IF p.inf THEN Finite(Len(dp)) ELSE Finite(Min(p.n, Len(dp)))

\* lines 163-165
AmplFlexConstrs(pl, rr, dp, par) ==
    {Constr(<<"Max_Number_Flex_Starters">>,
            {my_starters(n) : n \in {n \in DRAFTABLE_PLAYERS(pl) :
                RosterRowOf(rr, RowOf(pl, n)["Position"])["Flex Status"] = "Flex Eligible"}},
            "<=", max_number_of_flex_starters(par, dp))}

AmplConstrs(pl, rr, dp, par) ==
    AmplRoleConstrs(pl) \cup AmplOrderConstrs(pl, dp) \cup AmplSizeConstrs(pl, dp)
    \cup AmplRosterConstrs(pl, rr) \cup AmplFlexConstrs(pl, rr, dp, par)

-----------------------------------------------------------------------------
(* The Solution Extractor *)

\* gurobipy lines 167-168, amplpy line 201: a value within tolerance of 1
almostone(val, v) == val[v] = 1

MyDraftRow(name, dpos, pos, poa, sor) ==
    ("Player Name" :> name) @@ ("Draft Position" :> dpos) @@ ("Position" :> pos) @@
    ("Planned Or Actual" :> poa) @@ ("Starter Or Reserve" :> sor)

RECURSIVE SetToSeq(_)
\* the elements of a Python set, in the order a loop over it meets them
SetToSeq(S) ==
    IF S = {} THEN <<>>
    ELSE LET e == CHOOSE e \in S : TRUE IN <<e>> \o SetToSeq(S \ {e})

\* gurobipy lines 169-171
picked(pl, edp, val) ==
    SortedBy(SetToSeq({n \in can_be_drafted_by_me(pl) :
                          almostone(val, my_starters(n)) \/ almostone(val, my_reserves(n))}),
             edp)

ZipLen(a, b) == Min(Len(a), Len(b))

\* draft_yield with the starter weight for every picked player
draft_yieldAllStarters(pl, par, pk, dp, val) ==
    SumOver(1..ZipLen(pk, dp),
            [j \in 1..ZipLen(pk, dp) |->
                RowOf(pl, pk[j])["Expected Points"] *
                create_full_parameters_dict(par)["Starter Weight"].n])

\* gurobipy lines 176-179, over the pairs of zip(picked, sorted slots)
draft_yield(pl, par, pk, dp, val) ==
    SumOver(1..ZipLen(pk, dp),
            [j \in 1..ZipLen(pk, dp) |->
                RowOf(pl, pk[j])["Expected Points"] *
                (IF almostone(val, my_starters(pk[j]))
                    THEN create_full_parameters_dict(par)["Starter Weight"].n
                    ELSE create_full_parameters_dict(par)["Reserve Weight"].n)])

\* GurobiMyDraft with the slots taken in the order of the table, not sorted
GurobiMyDraftUnsorted(pl, pk, dp, val) ==
    [j \in 1..ZipLen(pk, dp) |->
        MyDraftRow(pk[j], dp[j], RowOf(pl, pk[j])["Position"],
                   IF pk[j] \in already_drafted_by_me(pl) THEN "Actual" ELSE "Planned",
                   IF almostone(val, my_starters(pk[j])) THEN "Starter" ELSE "Reserve")]

\* gurobipy lines 177-185
GurobiMyDraft(pl, pk, dp, val) ==
    LET slots == SortedBy(dp, [d \in Range(dp) |-> d])
    IN [j \in 1..ZipLen(pk, slots) |->
           MyDraftRow(pk[j], slots[j], RowOf(pl, pk[j])["Position"],
                      IF pk[j] \in already_drafted_by_me(pl) THEN "Actual" ELSE "Planned",
                      IF almostone(val, my_starters(pk[j])) THEN "Starter" ELSE "Reserve")]

\* gurobipy lines 172 and 180
GurobiExtractAsserts(pk, dp, edp) ==
    LET slots == SortedBy(dp, [d \in Range(dp) |-> d])
    IN /\ Len(pk) <= Len(dp)
       /\ \A j \in 1..ZipLen(pk, slots) : slots[j] <= edp[pk[j]]

\* DraftPerformed with the two outcomes exchanged
DraftPerformedExchanged(my_draft, dp) ==
    IF Len(my_draft) = Len(dp) THEN "Partial" ELSE "Complete"

\* gurobipy lines 187-188 and amplpy lines 223-224
DraftPerformed(my_draft, dp) ==
    IF Len(my_draft) = Len(dp) THEN "Complete" ELSE "Partial"

\* amplpy lines 198-214: starters, then reserves, ordered by Expected Draft Position
AmplSelected(pl, val) ==
    {v \in AmplVars(pl) : almostone(val, v)}

AmplMyDraftOrders(pl, val) ==
    LET sel == AmplSelected(pl, val)
    IN {s \in [1..Cardinality(sel) -> sel] :
           /\ \A i, j \in 1..Cardinality(sel) : i # j => s[i] # s[j]
           /\ \A i, j \in 1..Cardinality(sel) : i < j =>
                 RowOf(pl, s[i][2])["Expected Draft Position"]
                     <= RowOf(pl, s[j][2])["Expected Draft Position"]}

\* amplpy lines 205-208 and 216-220: the left join with the sorted slots
AmplMyDraft(pl, dp, order) ==
    LET slots == SortedBy(dp, [d \in Range(dp) |-> d])
    IN [j \in 1..Len(order) |->
           MyDraftRow(order[j][2],
                      IF j <= Len(slots) THEN slots[j] ELSE "NaN",
                      RowOf(pl, order[j][2])["Position"],
                      IF RowOf(pl, order[j][2])["Draft Status"] = "Un-drafted"
                          THEN "Planned" ELSE "Actual",
                      IF order[j][1] = "starter" THEN "Starter" ELSE "Reserve")]

-----------------------------------------------------------------------------
(* The inputs: every dat the model passes to solve *)

NameOf(i) == CASE i = 1 -> "p1" [] i = 2 -> "p2" [] i = 3 -> "p3" [] OTHER -> "p4"

\* rows of a players table that pass the data types
PlayerRows(name) ==
    {PlayerRow(name, "QB", 1, 20, "Drafted By Someone Else")}
    \cup {PlayerRow(name, pos, 1, 20, "Drafted By Me") : pos \in {"QB", "RB"}}
    \cup {PlayerRow(name, "QB", 1, 20, "Un-drafted"),
          PlayerRow(name, "QB", 2, 15, "Un-drafted"),
          PlayerRow(name, "RB", 2, 15, "Un-drafted")}

\* rows that fail them: an Average Draft Position of 0, an unknown Draft Status
BadPlayerRows(name) ==
    {PlayerRow(name, "QB", 0, 20, "Un-drafted"),
     PlayerRow(name, "QB", 1, 20, "Traded")}

RECURSIVE TablesOfLen(_)
TablesOfLen(n) ==
    IF n = 0 THEN {<<>>}
    ELSE {Append(t[1], t[2]) : t \in TablesOfLen(n - 1) \X PlayerRows(NameOf(n))}

PlayersTables == UNION {TablesOfLen(n) : n \in 0..MaxPlayers}

QBOneStarter == RosterRow("QB", 1, 1, 0, 1, "Flex Ineligible")
QBBoth == RosterRow("QB", 1, 1, 1, 1, "Flex Ineligible")
QBFlex == RosterRow("QB", 0, 2, 0, 1, "Flex Eligible")
QBNoStarter == RosterRow("QB", 0, 0, 1, 1, "Flex Ineligible")
RBStarter == RosterRow("RB", 1, 2, 0, 1, "Flex Eligible")
RBOptional == RosterRow("RB", 0, 1, 0, 1, "Flex Eligible")

FlexCap(n) ==
    <<("Parameter" :> "Maximum Number of Flex Starters") @@ ("Value" :> Finite(n))>>

\* a parameters table that sets both weights: 2.0 for starters, 0.5 for reserves
Weights ==
    <<("Parameter" :> "Starter Weight") @@ ("Value" :> Finite(20)),
      ("Parameter" :> "Reserve Weight") @@ ("Value" :> Finite(5))>>

\* roster_requirements with parameters; "Max Num Starters" = 0 passes the
\* data types of the amplpy variant only
Settings ==
    {<<<<QBOneStarter>>, <<>>>>,
     <<<<QBBoth>>, <<>>>>,
     <<<<QBBoth>>, Weights>>,
     <<<<QBFlex>>, <<>>>>,
     <<<<QBFlex>>, FlexCap(1)>>,
     <<<<QBNoStarter>>, <<>>>>,
     <<<<QBOneStarter, RBStarter>>, <<>>>>,
     <<<<RBOptional, QBFlex>>, <<>>>>}

\* the slots: any set of picks out of 1..MaxSlot in ascending order, and all
\* of them in descending order
DraftPositionTables ==
    LET up(S) == SortedBy(SetToSeq(S), [d \in S |-> d])
        down(S) == SortedBy(SetToSeq(S), [d \in S |-> 0 - d])
    IN {up(S) : S \in SUBSET (1..MaxSlot)} \cup {down(1..MaxSlot)}

\* inputs with one table that fails a check of the schema, the others small
BadRosterTables ==
    {<<RosterRow("QB", 2, 1, 0, 1, "Flex Ineligible")>>,
     <<RosterRow("QB", 0, 1, 1, 0, "Flex Ineligible")>>,
     <<RosterRow("QB", 0 - 1, 1, 0, 1, "Flex Ineligible")>>,
     <<RosterRow("QB", 1, 1, 0, 1, "Bench")>>}

BadInputs(v) ==
    {<<Append(t[1], t[2]), <<QBOneStarter>>, <<1, 2>>, <<>>>>
        : t \in TablesOfLen(1) \X BadPlayerRows(NameOf(2))}
    \cup {<<<<t[2]>>, <<QBOneStarter>>, t[1], <<>>>>
        : t \in {<<1>>, <<2, 1>>} \X BadPlayerRows(NameOf(1))}
    \cup {<<t[1], t[2], <<1, 2>>, <<>>>> : t \in TablesOfLen(1) \X BadRosterTables}
    \cup {<<t[1], t[2][1], <<0, 1>>, t[2][2]>> : t \in TablesOfLen(1) \X Settings}
    \cup (IF v = "amplpy"
             THEN {<<Append(t[1], t[2]), <<QBOneStarter>>, <<1, 2>>, <<>>>>
                      : t \in TablesOfLen(1) \X PlayerRows(NameOf(1))}
                  \cup {<<t, <<QBOneStarter, QBFlex>>, <<1, 2>>, <<>>>> : t \in TablesOfLen(1)}
                  \cup {<<t, <<QBOneStarter>>, <<1, 1>>, <<>>>> : t \in TablesOfLen(1)}
             ELSE {})

\* a TicDat table is a dict, so its keys are distinct; a PanDat table is a
\* DataFrame, where two rows may hold the same key
Inputs(v) ==
    {<<t[1], t[2][1], t[3], t[2][2]>> : t \in PlayersTables \X Settings \X DraftPositionTables}
    \cup BadInputs(v)

Init ==
    /\ variant \in Variants
    /\ \E d \in Inputs(variant) :
          /\ players = d[1]
          /\ roster_requirements = d[2]
          /\ my_draft_positions = d[3]
          /\ parameters = d[4]
    /\ loaded = [players |-> players, roster_requirements |-> roster_requirements,
                 my_draft_positions |-> my_draft_positions, parameters |-> parameters]
    /\ pc = "start"
    /\ expected_draft_position = <<>>
    /\ m_vars = {}
    /\ m_constrs = {}
    /\ m_objective = <<>>
    /\ solver_calls = 0
    /\ status = "none"
    /\ x = <<>>
    /\ printed = <<>>
    /\ result = "running"
    /\ sln_my_draft = <<>>
    /\ sln_parameters = <<>>

dat == <<players, roster_requirements, my_draft_positions, parameters>>
model == <<m_vars, m_constrs, m_objective>>
solution == <<sln_my_draft, sln_parameters>>

-----------------------------------------------------------------------------
(* solve(dat), gurobipy variant *)

\* lines 88-91
GurobiValidate ==
    /\ variant = "gurobipy" /\ pc = "start"
    /\ IF InputChecksPass(variant, players, roster_requirements, my_draft_positions)
          THEN pc' = "validated" /\ result' = result
          ELSE pc' = "done" /\ result' = "AssertionError"
    /\ UNCHANGED <<variant, loaded, dat, expected_draft_position, model, solver_calls,
                   status, x, printed, solution>>

\* lines 93-102; max() of no values raises ValueError
GurobiEstimate ==
    /\ variant = "gurobipy" /\ pc = "validated"
    /\ expected_draft_position' = GurobiExpectedDraftPosition(players)
    /\ IF Len(players) = 0
          THEN pc' = "done" /\ result' = "ValueError"
          ELSE IF GurobiPositionAsserts(expected_draft_position', players)
                  THEN pc' = "estimated" /\ result' = result
                  ELSE pc' = "done" /\ result' = "AssertionError"
    /\ UNCHANGED <<variant, loaded, dat, model, solver_calls, status, x, printed, solution>>

\* lines 104-158
GurobiBuild ==
    /\ variant = "gurobipy" /\ pc = "estimated"
    /\ m_vars' = GurobiVars(players)
    /\ m_constrs' = GurobiConstrs(players, roster_requirements, my_draft_positions,
                                  parameters, expected_draft_position)
    /\ m_objective' = Objective(players, parameters, can_be_drafted_by_me(players))
    /\ pc' = "built"
    /\ UNCHANGED <<variant, loaded, dat, expected_draft_position, solver_calls, status, x,
                   printed, result, solution>>

\* line 160, the solver ending with an optimum or a proof that there is none
GurobiOptimize ==
    /\ variant = "gurobipy" /\ pc = "built"
    /\ solver_calls' = solver_calls + 1
    /\ LET F == Feasible(m_vars, m_constrs)
       IN IF F = {}
             THEN status' = "infeasible" /\ x' = x
             ELSE status' = "optimal" /\ x' \in Best(F, m_objective)
    /\ pc' = "solved"
    /\ UNCHANGED <<variant, loaded, dat, expected_draft_position, model, printed, result,
                   solution>>

\* lines 162-164
GurobiNoDraft ==
    /\ variant = "gurobipy" /\ pc = "solved"
    /\ status # "optimal"
    /\ printed' = Append(printed, "No draft at all is possible!")
    /\ result' = "None"
    /\ pc' = "done"
    /\ UNCHANGED <<variant, loaded, dat, expected_draft_position, model, solver_calls,
                   status, x, solution>>

\* lines 166-189
GurobiExtract ==
    /\ variant = "gurobipy" /\ pc = "solved"
    /\ status = "optimal"
    /\ LET pk == picked(players, expected_draft_position, x)
           slots == SortedBy(my_draft_positions, [d \in Range(my_draft_positions) |-> d])
       IN /\ printed' =
                IF Len(pk) < Len(my_draft_positions)
                   THEN Append(printed, "Your model is over-constrained, and thus only a partial draft was possible")
                   ELSE printed
          /\ IF GurobiExtractAsserts(pk, my_draft_positions, expected_draft_position)
                THEN /\ sln_my_draft' = GurobiMyDraft(players, pk, my_draft_positions, x)
                     /\ sln_parameters' =
                           [p \in {"Total Yield", "Draft Performed"} |->
                               IF p = "Total Yield"
                                  THEN draft_yield(players, parameters, pk, slots, x)
                                  ELSE DraftPerformed(sln_my_draft', my_draft_positions)]
                     /\ result' = "sln"
                ELSE /\ result' = "AssertionError"
                     /\ UNCHANGED solution
    /\ pc' = "done"
    /\ UNCHANGED <<variant, loaded, dat, expected_draft_position, model, solver_calls,
                   status, x>>

-----------------------------------------------------------------------------
(* solve(dat), amplpy variant *)

\* lines 89-93
AmplValidate ==
    /\ variant = "amplpy" /\ pc = "start"
    /\ IF InputChecksPass(variant, players, roster_requirements, my_draft_positions)
          THEN pc' = "validated" /\ result' = result
          ELSE pc' = "done" /\ result' = "AssertionError"
    /\ UNCHANGED <<variant, loaded, dat, expected_draft_position, model, solver_calls,
                   status, x, printed, solution>>

\* lines 99-111: dat.players and dat.my_draft_positions are sorted in place
AmplEstimate ==
    /\ variant = "amplpy" /\ pc = "validated"
    /\ \E o \in SortOrders(Len(players), [i \in 1..Len(players) |-> SortKey(players[i])]) :
           players' = AmplSortedPlayers(players, o)
    /\ my_draft_positions' = AmplSortedDraftPositions(my_draft_positions)
    /\ IF AmplPositionAssert(players')
          THEN pc' = "estimated" /\ result' = result
          ELSE pc' = "done" /\ result' = "AssertionError"
    /\ UNCHANGED <<variant, loaded, roster_requirements, parameters,
                   expected_draft_position, model, solver_calls, status, x, printed,
                   solution>>

\* lines 113-190
AmplBuild ==
    /\ variant = "amplpy" /\ pc = "estimated"
    /\ m_vars' = AmplVars(players)
    /\ m_constrs' = AmplConstrs(players, roster_requirements, my_draft_positions, parameters)
    /\ m_objective' = Objective(players, parameters, DRAFTABLE_PLAYERS(players))
    /\ pc' = "built"
    /\ UNCHANGED <<variant, loaded, dat, expected_draft_position, solver_calls, status, x,
                   printed, result, solution>>

\* line 193, the solver ending with an optimum or a proof that there is none
AmplSolve ==
    /\ variant = "amplpy" /\ pc = "built"
    /\ solver_calls' = solver_calls + 1
    /\ LET F == Feasible(m_vars, m_constrs)
       IN IF F = {}
             THEN status' = "infeasible" /\ x' = [v \in m_vars |-> 0]
             ELSE status' = "optimal" /\ x' \in Best(F, m_objective)
    /\ pc' = "solved"
    /\ UNCHANGED <<variant, loaded, dat, expected_draft_position, model, printed, result,
                   solution>>

\* lines 194-196
AmplNoDraft ==
    /\ variant = "amplpy" /\ pc = "solved"
    /\ status = "infeasible"
    /\ printed' = Append(printed, "No draft at all is possible!")
    /\ result' = "None"
    /\ pc' = "done"
    /\ UNCHANGED <<variant, loaded, dat, expected_draft_position, model, solver_calls,
                   status, x, solution>>

\* lines 198-226
AmplExtract ==
    /\ variant = "amplpy" /\ pc = "solved"
    /\ status # "infeasible"
    /\ \E order \in AmplMyDraftOrders(players, x) :
           sln_my_draft' = AmplMyDraft(players, my_draft_positions, order)
    /\ sln_parameters' =
           [p \in {"Total Yield", "Draft Performed"} |->
               IF p = "Total Yield" THEN ObjVal(m_objective, x)
               ELSE DraftPerformed(sln_my_draft', my_draft_positions)]
    /\ printed' = IF Len(sln_my_draft') < Len(my_draft_positions)
                     THEN Append(printed, "Your model is over-constrained, and thus only a partial draft was possible")
                     ELSE printed
    /\ result' = "sln"
    /\ pc' = "done"
    /\ UNCHANGED <<variant, loaded, dat, expected_draft_position, model, solver_calls,
                   status, x>>

-----------------------------------------------------------------------------
(* The solver ending in any other way: a limit or an interrupt, a failure    *)
(* (licence, numerical trouble). What it leaves in the variables is then not *)
(* determined by the model.                                                  *)

OtherStatuses == {"limit", "failure"}

GurobiOptimizeOther ==
    /\ variant = "gurobipy" /\ pc = "built"
    /\ solver_calls' = solver_calls + 1
    /\ status' \in OtherStatuses
    /\ x' \in [m_vars -> {0, 1}]
    /\ pc' = "solved"
    /\ UNCHANGED <<variant, loaded, dat, expected_draft_position, model, printed, result,
                   solution>>

AmplSolveOther ==
    /\ variant = "amplpy" /\ pc = "built"
    /\ solver_calls' = solver_calls + 1
    /\ status' \in OtherStatuses
    /\ x' \in [m_vars -> {0, 1}]
    /\ pc' = "solved"
    /\ UNCHANGED <<variant, loaded, dat, expected_draft_position, model, printed, result,
                   solution>>

-----------------------------------------------------------------------------

Next ==
    \/ GurobiValidate \/ GurobiEstimate \/ GurobiBuild \/ GurobiOptimize
    \/ GurobiNoDraft \/ GurobiExtract
    \/ AmplValidate \/ AmplEstimate \/ AmplBuild \/ AmplSolve
    \/ AmplNoDraft \/ AmplExtract

Spec == Init /\ [][Next]_vars

NextAnyStatus == Next \/ GurobiOptimizeOther \/ AmplSolveOther

SpecAnyStatus == Init /\ [][NextAnyStatus]_vars

-----------------------------------------------------------------------------
(* Properties *)

\* solve has returned a solution
Returned == pc = "done" /\ result = "sln"

\* the Draft Position Estimator has run
Estimated ==
    \/ pc \in {"estimated", "built", "solved"}
    \/ pc = "done" /\ result \in {"sln", "None", "ValueError"}

\* the expected draft positions solve computed: the dict, or the column
ExpectedDraftPositions ==
    IF variant = "gurobipy" THEN expected_draft_position
    ELSE AmplExpectedDraftPosition(players)

InputNames == Range(Column(loaded.players, "Player Name"))
InputRow(n) == RowOf(loaded.players, n)
InputStatus(st) == {n \in InputNames : InputRow(n)["Draft Status"] = st}

Value(v) == IF v \in DOMAIN x THEN x[v] ELSE 0
RolesOf(n) == Value(my_starters(n)) + Value(my_reserves(n))
Selected == {n \in InputNames : RolesOf(n) >= 1}
MyDraftRowsOf(n) == {j \in 1..Len(sln_my_draft) : sln_my_draft[j]["Player Name"] = n}

\* C1: the expected draft positions are a bijection from the players onto
\* 1..N; "Drafted By Someone Else" comes before "Drafted By Me", which comes
\* before "Un-drafted", and of two un-drafted players the one with the
\* strictly smaller Average Draft Position comes first.
C1_ExpectedDraftPositions ==
    Estimated =>
        LET edp == ExpectedDraftPositions
        IN /\ DOMAIN edp = InputNames
           /\ {edp[n] : n \in InputNames} = 1..Len(loaded.players)
           /\ \A a, b \in InputNames : a # b => edp[a] # edp[b]
           /\ \A a \in InputStatus("Drafted By Someone Else"),
                 b \in InputStatus("Drafted By Me") : edp[a] < edp[b]
           /\ \A a \in InputStatus("Drafted By Me"),
                 b \in InputStatus("Un-drafted") : edp[a] < edp[b]
           /\ \A a, b \in InputStatus("Un-drafted") :
                 InputRow(a)["Average Draft Position"] < InputRow(b)["Average Draft Position"]
                     => edp[a] < edp[b]

\* a table that lists a player drafted by me ahead of one drafted by someone
\* else has been ranked
C1_Witness ==
    /\ pc = "estimated"
    /\ Len(loaded.players) = 2
    /\ loaded.players[1]["Draft Status"] = "Drafted By Me"
    /\ loaded.players[2]["Draft Status"] = "Drafted By Someone Else"

\* C2: in a returned solution a "Drafted By Me" player has exactly one role,
\* an "Un-drafted" player at most one, and a "Drafted By Someone Else" player
\* has no variable and no row of my_draft.
C2_Roles ==
    Returned =>
        /\ \A n \in InputStatus("Drafted By Me") :
              RolesOf(n) = 1 /\ Cardinality(MyDraftRowsOf(n)) = 1
        /\ \A n \in InputStatus("Un-drafted") :
              RolesOf(n) <= 1 /\ Cardinality(MyDraftRowsOf(n)) <= 1
        /\ \A n \in InputStatus("Drafted By Someone Else") :
              /\ my_starters(n) \notin m_vars
              /\ my_reserves(n) \notin m_vars
              /\ MyDraftRowsOf(n) = {}

\* a solution for a table with a player of mine next to a player of someone
\* else, or next to an un-drafted player who is left out of the draft
C2_Witness ==
    /\ Returned
    /\ InputStatus("Drafted By Me") # {}
    /\ \/ InputStatus("Drafted By Someone Else") # {}
       \/ \E n \in InputStatus("Un-drafted") : RolesOf(n) = 0

\* C3: in a returned solution the number of selected players is at most the
\* number of draft slots and at least the number of players already drafted
\* by me plus one, in both variants.
C3_DraftSize ==
    Returned =>
        /\ Cardinality(Selected) <= Len(loaded.my_draft_positions)
        /\ Cardinality(Selected) >= Cardinality(InputStatus("Drafted By Me")) + 1

MyDraftCount(pos, role) ==
    Cardinality({j \in 1..Len(sln_my_draft) :
                    /\ sln_my_draft[j]["Position"] = pos
                    /\ sln_my_draft[j]["Starter Or Reserve"] = role})

\* C4: in a returned solution, for every row of roster_requirements, the
\* starters of my_draft at the position number between Min Num Starters and
\* Max Num Starters, and the reserves between Min Num Reserve and Max Num
\* Reserve; a position without a draftable player included.
C4_Roster ==
    Returned =>
        \A k \in 1..Len(loaded.roster_requirements) :
            LET row == loaded.roster_requirements[k]
            IN /\ row["Min Num Starters"] <= MyDraftCount(row["Position"], "Starter")
               /\ MyDraftCount(row["Position"], "Starter") <= row["Max Num Starters"]
               /\ row["Min Num Reserve"] <= MyDraftCount(row["Position"], "Reserve")
               /\ MyDraftCount(row["Position"], "Reserve") <= row["Max Num Reserve"]

\* a solution with a starter, for a roster with a position that no draftable
\* player has
C4_Witness ==
    /\ Returned
    /\ \E j \in 1..Len(sln_my_draft) : sln_my_draft[j]["Starter Or Reserve"] = "Starter"
    /\ \E k \in 1..Len(loaded.roster_requirements) :
          \A n \in InputNames :
              \/ InputRow(n)["Position"] # loaded.roster_requirements[k]["Position"]
              \/ InputRow(n)["Draft Status"] = "Drafted By Someone Else"

SortedSlots == SortedBy(loaded.my_draft_positions,
                        [d \in Range(loaded.my_draft_positions) |-> d])

AheadOf(d) == {n \in Selected : ExpectedDraftPositions[n] < d}

\* C5: in a returned solution, for the i-th smallest draft slot d, at most
\* i - 1 selected players have an expected draft position below d.
C5_DraftOrder ==
    Returned =>
        \A i \in 1..Len(SortedSlots) : Cardinality(AheadOf(SortedSlots[i])) <= i - 1

\* a solution with the slots listed in descending order, in which as many
\* players as allowed are ahead of a slot
C5_Witness ==
    /\ Returned
    /\ loaded.my_draft_positions # SortedSlots
    /\ \E i \in 2..Len(SortedSlots) : Cardinality(AheadOf(SortedSlots[i])) = i - 1

\* the example of the specification: one roster requirement for QB, two
\* quarterbacks (mine with 20 points, an un-drafted one with 15), default
\* parameters and two draft slots
ExampleInput ==
    /\ loaded.roster_requirements = <<QBOneStarter>>
    /\ loaded.parameters = <<>>
    /\ Len(loaded.players) = 2
    /\ Len(loaded.my_draft_positions) = 2
    /\ \E me \in InputStatus("Drafted By Me"), other \in InputStatus("Un-drafted") :
          /\ InputRow(me)["Position"] = "QB" /\ InputRow(me)["Expected Points"] = 20
          /\ InputRow(other)["Position"] = "QB" /\ InputRow(other)["Expected Points"] = 15

\* both players drafted, mine as Starter, the other as Reserve, 37.5 points
ExampleOutcome ==
    /\ result = "sln"
    /\ Len(sln_my_draft) = 2
    /\ \A j \in 1..Len(sln_my_draft) :
          sln_my_draft[j]["Starter Or Reserve"] =
              IF sln_my_draft[j]["Player Name"] \in InputStatus("Drafted By Me")
                  THEN "Starter" ELSE "Reserve"
    /\ \A n \in InputNames : MyDraftRowsOf(n) # {}
    /\ sln_parameters["Total Yield"] = 375
    /\ sln_parameters["Draft Performed"] = "Complete"

\* C6 as claimed: the example ends as described whatever the two slots are.
C6_AnySlots == (ExampleInput /\ pc = "done") => ExampleOutcome

\* C6: the example with the draft slots 1 and 2 ends with both players
\* drafted, mine as Starter and the un-drafted one as Reserve, a Total Yield
\* of 37.5 and a Complete draft.
C6_Example ==
    (ExampleInput /\ Range(loaded.my_draft_positions) = {1, 2} /\ pc = "done")
        => ExampleOutcome

C6_Witness ==
    /\ ExampleInput
    /\ Range(loaded.my_draft_positions) = {1, 2}
    /\ Returned

InputValid ==
    InputChecksPass(variant, loaded.players, loaded.roster_requirements,
                    loaded.my_draft_positions)

SumMinStarters ==
    SumOver(1..Len(loaded.roster_requirements),
            [k \in 1..Len(loaded.roster_requirements) |->
                loaded.roster_requirements[k]["Min Num Starters"]])

\* C7: a valid input whose Min Num Starters add up to more than the number of
\* draft slots ends with "No draft at all is possible!" and no solution.
C7_TooManyStarters ==
    (pc = "done" /\ InputValid /\ SumMinStarters > Len(loaded.my_draft_positions))
        => /\ result = "None"
           /\ printed = <<"No draft at all is possible!">>
           /\ sln_my_draft = <<>> /\ sln_parameters = <<>>

\* C8: a solver call that ends with another status than optimal is followed
\* by no solution, in both variants, and the solver is called once.
C8_NotOptimal ==
    (pc = "done" /\ status \notin {"none", "optimal"})
        => /\ result = "None"
           /\ sln_my_draft = <<>> /\ sln_parameters = <<>>
           /\ solver_calls = 1

\* an input that fails a check of the schema
SchemaFailure ==
    \/ find_duplicates(loaded.players, loaded.roster_requirements,
                       loaded.my_draft_positions) # {}
    \/ find_foreign_key_failures(loaded.players, loaded.roster_requirements) # {}
    \/ find_data_type_failures(variant, loaded.players, loaded.roster_requirements,
                               loaded.my_draft_positions) # {}
    \/ find_data_row_failures(loaded.roster_requirements) # {}

\* C9: with an input that fails a check of the schema, solve stops before a
\* variable or a constraint exists and before the solver is called, and
\* produces no solution.
C9_AbortBeforeModel ==
    SchemaFailure =>
        /\ pc \in {"start", "done"}
        /\ m_vars = {} /\ m_constrs = {} /\ m_objective = <<>>
        /\ solver_calls = 0 /\ status = "none"
        /\ result \in {"running", "AssertionError"}
        /\ sln_my_draft = <<>> /\ sln_parameters = <<>>

\* solve has stopped on a roster row with a maximum below its minimum
C9_Witness ==
    /\ pc = "done" /\ result = "AssertionError"
    /\ find_data_row_failures(loaded.roster_requirements) # {}

\* C10: a returned solution says "Partial" when fewer players are selected
\* than there are draft slots and "Complete" when as many are; the partial
\* draft is returned with its rows and its Total Yield, and an optimal solve
\* never ends in an error.
C10_DraftPerformed ==
    /\ Returned =>
          /\ Cardinality(Selected) < Len(loaded.my_draft_positions)
                => sln_parameters["Draft Performed"] = "Partial"
          /\ Cardinality(Selected) = Len(loaded.my_draft_positions)
                => sln_parameters["Draft Performed"] = "Complete"
          /\ Len(sln_my_draft) = Cardinality(Selected)
          /\ DOMAIN sln_parameters = {"Total Yield", "Draft Performed"}
    /\ (pc = "done" /\ status = "optimal") => result = "sln"

\* a partial draft with a player in it has been returned
C10_Witness ==
    /\ Returned
    /\ sln_parameters["Draft Performed"] = "Partial"
    /\ Len(sln_my_draft) >= 1

\* the place of a selected player among the selected players, by expected
\* draft position
RankOf(n) == 1 + Cardinality({m \in Selected :
                                 ExpectedDraftPositions[m] < ExpectedDraftPositions[n]})

SlotSet == Range(loaded.my_draft_positions)

\* the j-th smallest draft slot of the input
SlotOfRank(j) == CHOOSE d \in SlotSet : Cardinality({e \in SlotSet : e < d}) = j - 1

\* C11: a returned solution has exactly one row of my_draft per selected
\* player and no other row; the selected player with the j-th smallest
\* expected draft position holds the j-th smallest draft slot; "Planned Or
\* Actual" is "Actual" exactly for a "Drafted By Me" player; "Starter Or
\* Reserve" is "Starter" exactly when the Starter variable is selected.
C11_MyDraftRows ==
    Returned =>
        /\ Len(sln_my_draft) = Cardinality(Selected)
        /\ \A j \in 1..Len(sln_my_draft) : sln_my_draft[j]["Player Name"] \in Selected
        /\ \A n \in Selected :
              /\ Cardinality(MyDraftRowsOf(n)) = 1
              /\ RankOf(n) <= Cardinality(SlotSet)
              /\ \A j \in MyDraftRowsOf(n) :
                    /\ sln_my_draft[j]["Draft Position"] = SlotOfRank(RankOf(n))
                    /\ sln_my_draft[j]["Planned Or Actual"] =
                          IF InputRow(n)["Draft Status"] = "Drafted By Me"
                              THEN "Actual" ELSE "Planned"
                    /\ sln_my_draft[j]["Starter Or Reserve"] =
                          IF Value(my_starters(n)) = 1 THEN "Starter" ELSE "Reserve"
                    /\ sln_my_draft[j]["Position"] = InputRow(n)["Position"]

\* a solution with a player of mine and a planned one, for draft slots that
\* were listed in descending order
C11_Witness ==
    /\ Returned
    /\ loaded.my_draft_positions # SortedSlots
    /\ \E i, j \in 1..Len(sln_my_draft) :
          /\ sln_my_draft[i]["Planned Or Actual"] = "Actual"
          /\ sln_my_draft[j]["Planned Or Actual"] = "Planned"

\* the players an optimal assignment of the gurobipy model picks, in the
\* order of their expected draft positions
OptimalPicked ==
    LET sel == {n \in InputNames : RolesOf(n) >= 1}
    IN [j \in 1..Cardinality(sel) |->
           CHOOSE n \in sel :
               Cardinality({m \in sel : expected_draft_position[m]
                                            < expected_draft_position[n]}) = j - 1]

\* C12: in the gurobipy variant, after a solve of a valid input that ended
\* optimal, the picked players are no more than the draft slots, the j-th
\* picked player's draft slot is at most that player's expected draft
\* position, and solve does not end in an AssertionError.
C12_ExtractAsserts ==
    (variant = "gurobipy" /\ status = "optimal" /\ pc \in {"solved", "done"}) =>
        /\ Len(OptimalPicked) <= Len(loaded.my_draft_positions)
        /\ \A j \in 1..Len(OptimalPicked) :
              /\ j <= Cardinality(SlotSet)
              /\ SlotOfRank(j) <= expected_draft_position[OptimalPicked[j]]
        /\ result # "AssertionError"

\* the gurobipy variant has returned a draft that fills every slot, with a
\* player planned for the very pick at which the player is expected to go
C12_Witness ==
    /\ variant = "gurobipy" /\ Returned
    /\ Len(sln_my_draft) = Len(loaded.my_draft_positions)
    /\ Len(sln_my_draft) >= 2
    /\ \E j \in 1..Len(sln_my_draft) :
          sln_my_draft[j]["Draft Position"]
              = expected_draft_position[sln_my_draft[j]["Player Name"]]

\* the tables of the dat object as solve has left them
DatTables == [players |-> players, roster_requirements |-> roster_requirements,
              my_draft_positions |-> my_draft_positions, parameters |-> parameters]

\* C13: when solve has ended, with or without a solution, the four tables of
\* the dat object passed in have the columns, the rows and the row order they
\* had before the call, in both variants.
C13_DatUnchanged == pc = "done" => DatTables = loaded

\* the weight of a row of my_draft, by the parameters as they were passed in
WeightOf(role) ==
    IF role = "Starter"
       THEN create_full_parameters_dict(loaded.parameters)["Starter Weight"].n
       ELSE create_full_parameters_dict(loaded.parameters)["Reserve Weight"].n

\* Expected Points times the weight of the role, added up over my_draft
MyDraftYield ==
    SumOver(1..Len(sln_my_draft),
            [j \in 1..Len(sln_my_draft) |->
                InputRow(sln_my_draft[j]["Player Name"])["Expected Points"]
                    * WeightOf(sln_my_draft[j]["Starter Or Reserve"])])

\* C14: in a returned solution "Total Yield" is the objective value of the
\* assignment, which no assignment that satisfies the constraints exceeds,
\* and it is the sum over the rows of my_draft of Expected Points times the
\* weight of the row's role; every selected player has a row of my_draft.
C14_TotalYield ==
    Returned =>
        /\ sln_parameters["Total Yield"] = ObjVal(m_objective, x)
        /\ \A val \in Feasible(m_vars, m_constrs) :
              ObjVal(m_objective, val) <= sln_parameters["Total Yield"]
        /\ sln_parameters["Total Yield"] = MyDraftYield
        /\ \A n \in Selected : MyDraftRowsOf(n) # {}

\* a partial draft with a starter and a reserve has been returned, for
\* weights set by the parameters table
C14_Witness ==
    /\ Returned
    /\ Len(sln_my_draft) < Len(loaded.my_draft_positions)
    /\ \E i, j \in 1..Len(sln_my_draft) :
          /\ sln_my_draft[i]["Starter Or Reserve"] = "Starter"
          /\ sln_my_draft[j]["Starter Or Reserve"] = "Reserve"
    /\ sln_parameters["Total Yield"] > 0
    /\ loaded.parameters = Weights

====
